---- MODULE Spec2Model ----
(***************************************************************************)
(* Balance and settlement engine of the roommate expense tracker           *)
(* (src/js/calculate.js, src/js/storage.js, src/js/presence.js).           *)
(*                                                                         *)
(* Money is a fixed-point integer: one cent (0.01) is Cent units, so that  *)
(* values below one cent, amount / count for up to three participants and  *)
(* the exact tolerance 0.01 can all be written down.  toFixed(2) rounds to *)
(* the nearest multiple of Cent, halves away from zero.  Arithmetic is     *)
(* exact: the drift of IEEE doubles is not part of the model.              *)
(***************************************************************************)
EXTENDS Integers, Sequences, FiniteSets, TLC

VARIABLES
    call,           \* SpecCalc: the pending call of a pure function and its arguments
    ret,            \* SpecCalc: what the call returned or threw
    balances,       \* calculateSettlements: the balance map argument
    members,        \* calculateSettlements: the member list argument
    creditors,      \* calculateSettlements: creditors array [id, amount]
    debtors,        \* calculateSettlements: debtors array [id, amount]
    i,              \* calculateSettlements: creditor pointer (1-based)
    j,              \* calculateSettlements: debtor pointer (1-based)
    settlements,    \* calculateSettlements: instructions pushed so far
    pc,             \* calculateSettlements: position of the run
    run,            \* number of the current planner run on the same arguments
    firstResult,    \* instruction list returned by the first run
    givenBalances,  \* the balance map as it was handed to the first run
    storage,        \* window.storage is available
    west,           \* the browser's time zone is west of Greenwich
    backup,         \* localStorage BACKUP: the export taken by the last import
    storedMembers,  \* localStorage MEMBERS: the member ids, in order
    allExpenses,    \* localStorage EXPENSES: month key -> array of expenses
    presenceRecords, \* localStorage PRESENCE: array of absence records
    lockedMonths,   \* localStorage LOCKED_MONTHS
    lastOp          \* outcome of the last storage-backed operation

vars == <<call, ret, balances, members, creditors, debtors, i, j, settlements,
          pc, run, firstResult, givenBalances, storage, west, backup, storedMembers,
          allExpenses, presenceRecords, lockedMonths, lastOp>>

storeVars == <<storage, west, backup, storedMembers, allExpenses, presenceRecords,
               lockedMonths, lastOp>>

plannerVars == <<balances, members, creditors, debtors, i, j, settlements,
                 pc, run, firstResult, givenBalances>>

----
\* Units and bounds

Cent == 6                        \* units per 0.01
Dollar == 100 * Cent

MaxAmount == 20                  \* largest amount (units) of the fine-grained split inputs
MaxShare == 7                    \* largest single custom share (units) of the fine-grained inputs
MaxExpenseList == 2              \* longest expense list given to calculateBalances
MaxBal == 13                     \* largest |balance| (units) of the fine-grained planner inputs

MemberIds == {"Alice", "Bob", "Carol"}
MemberList == <<"Alice", "Bob", "Carol">>

----
\* Generic helpers

Abs(x) == IF x < 0 THEN -x ELSE x

Min(a, b) == IF a <= b THEN a ELSE b

RECURSIVE SumMap(_)
SumMap(f) ==
    IF DOMAIN f = {} THEN 0
    ELSE LET k == CHOOSE x \in DOMAIN f : TRUE
         IN f[k] + SumMap([x \in (DOMAIN f) \ {k} |-> f[x]])

Range(s) == {s[k] : k \in DOMAIN s}

EmptyMap == [x \in {} |-> 0]

\* Number.prototype.toFixed(2) followed by parseFloat, of the rational num/den
\* (den > 0): the nearest multiple of Cent, halves away from zero.
ToFixed2Q(num, den) ==
    IF num >= 0
    THEN ((2 * num + den * Cent) \div (2 * den * Cent)) * Cent
    ELSE -(((2 * (-num) + den * Cent) \div (2 * den * Cent)) * Cent)

ToFixed2(x) == ToFixed2Q(x, 1)

\* Duplicate-free sequences over S of length at most n
SeqsNoDup(S, n) ==
    {s \in UNION {[1..k -> S] : k \in 0..n} : Cardinality(Range(s)) = Len(s)}

\* All maps from a subset of S to V
MapsOver(S, V) == UNION {[D -> V] : D \in SUBSET S}

Thrown(msg) == [ok |-> FALSE, err |-> msg]
Returned(v) == [ok |-> TRUE, val |-> v]
Pending == [ok |-> FALSE, err |-> "pending"]

\* An optional share map: a missing (undefined / null) splitDetails, or an object
NoDetails == [present |-> FALSE, map |-> EmptyMap]
Details(m) == [present |-> TRUE, map |-> m]

----
\* SplitCalculator

\* Mutant: the share is cut off after 2 decimals instead of rounded
calculateEqualSplitTruncating(amount, participants) ==
    IF Len(participants) = 0 THEN Thrown("Participants array is required")
    ELSE IF amount <= 0 THEN Thrown("Valid amount is required")
    ELSE Returned([p \in Range(participants) |->
                      (amount \div (Len(participants) * Cent)) * Cent])

calculateEqualSplit(amount, participants) ==
    IF Len(participants) = 0 THEN Thrown("Participants array is required")
    ELSE IF amount <= 0 THEN Thrown("Valid amount is required")
    ELSE Returned([p \in Range(participants) |->
                      ToFixed2Q(amount, Len(participants))])

\* Mutant: the tolerance of the percentage check (0.1) used for amounts
calculateCustomSplitLoose(amount, splitDetails) ==
    IF ~splitDetails.present THEN Thrown("Split details object is required")
    ELSE IF amount <= 0 THEN Thrown("Valid amount is required")
    ELSE IF Abs(SumMap(splitDetails.map) - amount) > 10 * Cent
    THEN Thrown("Custom splits total doesn't match expense amount")
    ELSE Returned([p \in DOMAIN splitDetails.map |-> ToFixed2(splitDetails.map[p])])

calculateCustomSplit(amount, splitDetails) ==
    IF ~splitDetails.present THEN Thrown("Split details object is required")
    ELSE IF amount <= 0 THEN Thrown("Valid amount is required")
    ELSE LET total == SumMap(splitDetails.map)
             difference == Abs(total - amount)
         IN IF difference > Cent
            THEN Thrown("Custom splits total doesn't match expense amount")
            ELSE Returned([p \in DOMAIN splitDetails.map |->
                              ToFixed2(splitDetails.map[p])])

\* Mutant: the tolerance of the amount check (0.01) used for percentages
calculatePercentageSplitStrict(amount, percentageDetails) ==
    IF ~percentageDetails.present THEN Thrown("Percentage details object is required")
    ELSE IF amount <= 0 THEN Thrown("Valid amount is required")
    ELSE IF Abs(SumMap(percentageDetails.map) - 100 * Dollar) > Cent
    THEN Thrown("Percentages total should equal 100%")
    ELSE Returned([p \in DOMAIN percentageDetails.map |->
                      ToFixed2Q(amount * percentageDetails.map[p], 100 * Dollar)])

\* A percentage p is the number p / Dollar: 100 * Dollar is 100 percent, and
\* amount * percentage / 100 is the rational (amount * p) / (100 * Dollar)
calculatePercentageSplit(amount, percentageDetails) ==
    IF ~percentageDetails.present THEN Thrown("Percentage details object is required")
    ELSE IF amount <= 0 THEN Thrown("Valid amount is required")
    ELSE LET totalPercentage == SumMap(percentageDetails.map)
             percentageDifference == Abs(totalPercentage - 100 * Dollar)
         IN IF percentageDifference > 10 * Cent
            THEN Thrown("Percentages total should equal 100%")
            ELSE Returned([p \in DOMAIN percentageDetails.map |->
                              ToFixed2Q(amount * percentageDetails.map[p],
                                        100 * Dollar)])

----
\* BalanceAggregator

\* balances[k] = (balances[k] || 0) + d
MapAdd(b, k, d) ==
    [x \in (DOMAIN b) \cup {k} |->
        (IF x \in DOMAIN b THEN b[x] ELSE 0) + (IF x = k THEN d ELSE 0)]

Count(s, x) == Cardinality({k \in DOMAIN s : s[k] = x})

\* amount / n, for the inputs of the model an exact division
Quot(a, n) == a \div n

\* One pass of the expenses.forEach body of calculateBalances
ApplyExpense(b, expense) ==
    LET paidBy == expense.paidBy
        amount == expense.amount
        b1 == MapAdd(b, paidBy, amount)
    IN IF expense.splitDetails.present
       THEN LET shares == expense.splitDetails.map
                keys == (DOMAIN b1) \cup ((DOMAIN shares) \ {paidBy})
            IN [x \in keys |->
                   (IF x \in DOMAIN b1 THEN b1[x] ELSE 0)
                   - (IF x \in DOMAIN shares /\ x # paidBy THEN shares[x] ELSE 0)]
       ELSE IF Len(expense.splitBetween) > 0
       THEN LET share == Quot(amount, Len(expense.splitBetween))
                keys == (DOMAIN b1) \cup (Range(expense.splitBetween) \ {paidBy})
            IN [x \in keys |->
                   (IF x \in DOMAIN b1 THEN b1[x] ELSE 0)
                   - (IF x # paidBy THEN Count(expense.splitBetween, x) * share ELSE 0)]
       ELSE b1

RECURSIVE FoldExpenses(_, _)
FoldExpenses(b, expenses) ==
    IF expenses = <<>> THEN b
    ELSE FoldExpenses(ApplyExpense(b, Head(expenses)), Tail(expenses))

\* A null entry of the expense list
Null == [null |-> TRUE]

IsNull(expense) == "null" \in DOMAIN expense

\* The participant field of the expense is not an array but a string (its
\* characters, with a length and no forEach) or a number (no length)
NotArray(expense) == "splitBetweenIs" \in DOMAIN expense

\* The forEach body throws a TypeError on the expense: a property of null is
\* read, or forEach is called on a string of participants
Throws(expense) ==
    IF IsNull(expense) THEN TRUE
    ELSE /\ ~expense.splitDetails.present
         /\ NotArray(expense)
         /\ expense.splitBetweenIs = "string"
         /\ Len(expense.splitBetween) > 0

\* The whole body runs in one try block; its catch returns {}
calculateBalances(expenses, memberList) ==
    IF \E k \in DOMAIN expenses : Throws(expenses[k]) THEN EmptyMap
    ELSE LET initial == [m \in Range(memberList) |-> 0]
             summed == FoldExpenses(initial, expenses)
         IN [m \in DOMAIN summed |-> ToFixed2(summed[m])]

----
\* Storage, Expense and Presence modules

NoDate == 0                      \* a missing (empty) date string
MaxDate == 2                     \* dates are the days 1..MaxDate
MaxExpenses == 1                 \* most expenses held in the store
MaxAbsences == 1                 \* most absence records held in the store
MaxRecords == 2                  \* most absence records of the presence calendar
MaxDay == 3                      \* the presence calendar has the days 1..MaxDay

Dates == 1..MaxDate

\* The calendar of the model has two days to a month: day 1 is the last day of
\* month 0 and day 2 the first day of month 1
MonthOfDay(day) == day \div 2

\* new Date("YYYY-MM-DD") is midnight UTC of the day: read in local time
\* (getFullYear, getMonth) it is the same day east of Greenwich, and the evening
\* of the day before west of it
LocalDay(date) == IF west THEN date - 1 ELSE date

\* `${getFullYear()}-${getMonth() + 1}` of new Date(date)
MonthKeyOf(date) == MonthOfDay(LocalDay(date))

Months == {MonthOfDay(d) : d \in Dates}

NoExpenses == [k \in {} |-> <<>>]

\* localStorage has no BACKUP item
NoBackup == [version |-> FALSE]

\* Object.values(getExpenses()).flat(), as a set
StoredExpenses == UNION {Range(allExpenses[k]) : k \in DOMAIN allExpenses}

MaxOf(S) == IF S = {} THEN 0 ELSE CHOOSE x \in S : \A y \in S : y <= x

\* generateId(): an id no stored object of the collection carries
generateId(used) == MaxOf(used) + 1

Outcome(op, errors) == [op |-> op, ok |-> errors = {}, errors |-> errors]

\* Mutant: the last day of an absence does not count
getAbsentMembersBeforeEnd(date) ==
    {m \in Range(storedMembers) :
        \E k \in DOMAIN presenceRecords :
            /\ presenceRecords[k].memberId = m
            /\ date >= presenceRecords[k].startDate
            /\ date < presenceRecords[k].endDate}

\* presence.js getAbsentMembers: ids of the members with a record covering date
getAbsentMembers(date) ==
    {m \in Range(storedMembers) :
        \E k \in DOMAIN presenceRecords :
            LET record == presenceRecords[k]
                endDate == IF record.endDate # NoDate THEN record.endDate
                           ELSE record.startDate
            IN /\ record.memberId = m
               /\ date >= record.startDate
               /\ date <= endDate}

\* Expense.validateExpenseData: the list of error messages, as a set
validateExpenseData(d) ==
    (IF d.title = "" THEN {"Title is required"} ELSE {})
    \cup (IF d.amount <= 0 THEN {"Valid amount is required"} ELSE {})
    \cup (IF d.paidBy = "" THEN {"Payer is required"} ELSE {})
    \cup (IF Len(d.splitBetween) = 0
          THEN {"At least one participant is required"} ELSE {})
    \cup (IF d.date = NoDate THEN {"Date is required"} ELSE {})
    \cup (IF d.splitType = "custom" /\ d.splitDetails.present
          THEN IF Abs(SumMap(d.splitDetails.map) - d.amount) > Cent
               THEN {"Custom splits total doesn't match expense amount"}
               ELSE {}
          ELSE IF d.splitType = "percentage" /\ d.splitDetails.present
          THEN IF Abs(SumMap(d.splitDetails.map) - 100 * Dollar) > 10 * Cent
               THEN {"Percentages total should equal 100%"}
               ELSE {}
          ELSE {})

\* Expense.processAbsentMembers: drop the absent members and re-derive shares
processAbsentMembers(d) ==
    IF d.date = NoDate THEN d
    ELSE
    LET absentMemberIds == getAbsentMembers(d.date)
        IsPresent(m) == m \notin absentMemberIds
        filtered == SelectSeq(d.splitBetween, IsPresent)
        presentParticipants ==
            IF Len(filtered) = 0 /\ d.paidBy # "" THEN <<d.paidBy>> ELSE filtered
        n == Len(presentParticipants)
        target == IF d.splitType = "custom" THEN d.amount ELSE 100 * Dollar
        tolerance == IF d.splitType = "custom" THEN Cent ELSE 10 * Cent
        kept == [m \in (DOMAIN d.splitDetails.map) \ absentMemberIds |->
                    d.splitDetails.map[m]]
        difference == target - SumMap(kept)
        adjustment == Quot(difference, n)
    IN [d EXCEPT
          !.splitBetween = presentParticipants,
          !.splitDetails =
              IF d.splitType = "equal"
              THEN Details([m \in Range(presentParticipants) |->
                               IF n > 0 THEN Quot(d.amount, n) ELSE 0])
              ELSE IF ~d.splitDetails.present THEN d.splitDetails
              ELSE IF /\ d.splitType \in {"custom", "percentage"}
                      /\ Abs(difference) > tolerance
                      /\ n > 0
              THEN Details([m \in (DOMAIN kept) \cup Range(presentParticipants) |->
                               (IF m \in DOMAIN kept THEN kept[m] ELSE 0)
                               + (IF m \in Range(presentParticipants)
                                  THEN adjustment ELSE 0)])
              ELSE Details(kept)]

\* storage.js saveExpense: the errors it throws for the expense
saveExpenseErrors(expense) ==
    IF expense.title = "" \/ expense.amount = 0 \/ expense.paidBy = ""
    THEN {"Missing required expense fields"}
    ELSE IF MonthKeyOf(expense.date) \in lockedMonths
    THEN {"Month is locked and cannot be modified"}
    ELSE {}

\* storage.js saveExpense: the record it creates
newExpense(expense) ==
    [id |-> generateId({e.id : e \in StoredExpenses}),
     title |-> expense.title,
     amount |-> expense.amount,
     paidBy |-> expense.paidBy,
     splitType |-> expense.splitType,
     splitBetween |-> expense.splitBetween,
     splitDetails |-> IF expense.splitDetails.present THEN expense.splitDetails.map
                      ELSE EmptyMap,
     date |-> expense.date]

\* storage.js saveExpense: the stored expenses after the push
saveExpense(expense) ==
    LET monthKey == MonthKeyOf(expense.date)
        bucket == IF monthKey \in DOMAIN allExpenses THEN allExpenses[monthKey]
                  ELSE <<>>
    IN [k \in (DOMAIN allExpenses) \cup {monthKey} |->
           IF k = monthKey THEN Append(bucket, newExpense(expense))
           ELSE allExpenses[k]]

\* Expense.add: the errors the call throws (empty when it succeeds)
addErrors(d) ==
    IF ~storage THEN {"Storage not available"}
    ELSE IF validateExpenseData(d) # {} THEN validateExpenseData(d)
    ELSE saveExpenseErrors(processAbsentMembers(d))

\* Expense.add(expenseData)
ExpenseAdd(d) ==
    LET errors == addErrors(d)
    IN /\ lastOp' = Outcome("Expense.add", errors)
       /\ errors = {} => Cardinality(StoredExpenses) < MaxExpenses
       /\ allExpenses' = IF errors = {} THEN saveExpense(processAbsentMembers(d))
                         ELSE allExpenses
       /\ UNCHANGED <<call, ret, plannerVars, storage, west, backup, storedMembers,
                      presenceRecords, lockedMonths>>

\* { ...a, ...b }: the fields of a, overwritten and extended by those of b
Spread(a, b) ==
    [f \in (DOMAIN a) \cup (DOMAIN b) |-> IF f \in DOMAIN b THEN b[f] ELSE a[f]]

\* Expense.getById: the stored expenses with the id (none or one)
getById(expenseId) == {e \in StoredExpenses : e.id = expenseId}

\* The month keys whose array holds an expense with the id
BucketsOf(expenseId) ==
    {k \in DOMAIN allExpenses : \E x \in DOMAIN allExpenses[k] :
                                    allExpenses[k][x].id = expenseId}

\* Expense.update: updates.date || updates.splitBetween
ProcessesAbsences(updates) ==
    \/ "date" \in DOMAIN updates /\ updates.date # NoDate
    \/ "splitBetween" \in DOMAIN updates

\* Expense.update: { ...currentExpense, ...updates }, the share map read as the
\* object it is
mergedData(expenseId, updates) ==
    LET currentExpense == CHOOSE e \in getById(expenseId) : TRUE
        merged == Spread(currentExpense, updates)
    IN [merged EXCEPT !.splitDetails = Details(merged.splitDetails)]

\* Expense.update: the fields it hands to storage.updateExpense
updateFields(expenseId, updates) ==
    IF ProcessesAbsences(updates)
    THEN LET processedData == processAbsentMembers(mergedData(expenseId, updates))
         IN [f \in (DOMAIN processedData) \ {"id"} |->
                IF f = "splitDetails" THEN processedData.splitDetails.map
                ELSE processedData[f]]
    ELSE updates

\* storage.js updateExpense: the stored expenses after the merge
updateExpense(expenseId, updates) ==
    [k \in DOMAIN allExpenses |->
        [x \in DOMAIN allExpenses[k] |->
            IF allExpenses[k][x].id = expenseId
            THEN Spread(allExpenses[k][x], updates)
            ELSE allExpenses[k][x]]]

\* Expense.update: the errors the call throws (empty when it succeeds)
updateErrors(expenseId, updates) ==
    IF ~storage THEN {"Storage not available"}
    ELSE IF getById(expenseId) = {} THEN {"Expense not found"}
    ELSE IF BucketsOf(expenseId) \cap lockedMonths # {}
    THEN {"Month is locked and cannot be modified"}
    ELSE {}

\* Expense.update(expenseId, updates)
ExpenseUpdate(expenseId, updates) ==
    LET errors == updateErrors(expenseId, updates)
    IN /\ lastOp' = Outcome("Expense.update", errors)
       /\ allExpenses' = IF errors = {}
                         THEN updateExpense(expenseId, updateFields(expenseId, updates))
                         ELSE allExpenses
       /\ UNCHANGED <<call, ret, plannerVars, storage, west, backup, storedMembers,
                      presenceRecords, lockedMonths>>

\* storage.js deleteExpense: the stored expenses without the expense, a month
\* left empty removed
deleteExpense(expenseId) ==
    LET Others(e) == e.id # expenseId
        pruned == [k \in DOMAIN allExpenses |-> SelectSeq(allExpenses[k], Others)]
    IN [k \in {x \in DOMAIN pruned : pruned[x] # <<>>} |-> pruned[k]]

\* Expense.remove: the errors the call throws (empty when it succeeds)
removeErrors(expenseId) ==
    IF ~storage THEN {"Storage not available"}
    ELSE IF BucketsOf(expenseId) = {} THEN {"Expense not found"}
    ELSE IF BucketsOf(expenseId) \cap lockedMonths # {}
    THEN {"Month is locked and cannot be modified"}
    ELSE {}

\* Expense.remove(expenseId)
ExpenseRemove(expenseId) ==
    LET errors == removeErrors(expenseId)
    IN /\ lastOp' = Outcome("Expense.remove", errors)
       /\ allExpenses' = IF errors = {} THEN deleteExpense(expenseId)
                         ELSE allExpenses
       /\ UNCHANGED <<call, ret, plannerVars, storage, west, backup, storedMembers,
                      presenceRecords, lockedMonths>>

\* settlement.js validateSettlementData
validateSettlementData(s) ==
    (IF s.from = "" THEN {"From member is required"} ELSE {})
    \cup (IF s.to = "" THEN {"To member is required"} ELSE {})
    \cup (IF s.from = s.to THEN {"From and To members cannot be the same"} ELSE {})
    \cup (IF s.amount <= 0 THEN {"Valid amount is required"} ELSE {})
    \cup (IF s.amount > 1000000 * Dollar THEN {"Amount is too large"} ELSE {})

\* settlement.js recordSettlement: the expense that stands for the payment
settlementExpense(s) ==
    [title |-> "Settlement", amount |-> s.amount, paidBy |-> s.from,
     splitType |-> "custom", splitBetween |-> <<s.from, s.to>>,
     splitDetails |-> Details([m \in {s.from, s.to} |->
                                 IF m = s.to THEN s.amount ELSE 0]),
     date |-> s.date]

\* Settlement.recordSettlement: the errors the call throws
recordSettlementErrors(s) ==
    IF validateSettlementData(s) # {} THEN validateSettlementData(s)
    ELSE addErrors(settlementExpense(s))

\* Settlement.recordSettlement(settlementData)
RecordSettlement(s) ==
    LET errors == recordSettlementErrors(s)
    IN /\ lastOp' = Outcome("Settlement.recordSettlement", errors)
       /\ errors = {} => Cardinality(StoredExpenses) < MaxExpenses
       /\ allExpenses' = IF errors = {}
                         THEN saveExpense(processAbsentMembers(settlementExpense(s)))
                         ELSE allExpenses
       /\ UNCHANGED <<call, ret, plannerVars, storage, west, backup, storedMembers,
                      presenceRecords, lockedMonths>>

\* Mutant: the members away on the date of an expense are left out when the
\* expenses are read
getAllPresent(monthKey) ==
    LET bucket == IF monthKey \in DOMAIN allExpenses THEN allExpenses[monthKey]
                  ELSE <<>>
    IN [k \in DOMAIN bucket |->
           [bucket[k] EXCEPT !.splitDetails =
               Details([m \in (DOMAIN bucket[k].splitDetails)
                               \ getAbsentMembers(bucket[k].date) |->
                           bucket[k].splitDetails[m]])]]

\* Expense.getAll(monthKey): the bucket of the month, as calculateBalances
\* reads it (a stored share map is an object, hence truthy)
getAll(monthKey) ==
    LET bucket == IF monthKey \in DOMAIN allExpenses THEN allExpenses[monthKey]
                  ELSE <<>>
    IN [k \in DOMAIN bucket |->
           [bucket[k] EXCEPT !.splitDetails = Details(bucket[k].splitDetails)]]

\* Members.remove: the errors the call throws (empty when it succeeds)
deleteMemberErrors(memberId) ==
    IF ~storage THEN {"Storage not available"}
    ELSE IF \E e \in StoredExpenses :
               e.paidBy = memberId \/ memberId \in Range(e.splitBetween)
    THEN {"Cannot delete member with existing expenses"}
    ELSE {}

\* Members.remove(memberId), that is storage.js deleteMember: the member goes,
\* and with it the presence records of the member
DeleteMember(memberId) ==
    LET errors == deleteMemberErrors(memberId)
        Others(m) == m # memberId
        OfOthers(record) == record.memberId # memberId
    IN /\ lastOp' = Outcome("Members.remove", errors)
       /\ storedMembers' = IF errors = {} THEN SelectSeq(storedMembers, Others)
                           ELSE storedMembers
       /\ presenceRecords' = IF errors = {} THEN SelectSeq(presenceRecords, OfOthers)
                             ELSE presenceRecords
       /\ UNCHANGED <<call, ret, plannerVars, storage, west, backup, allExpenses,
                      lockedMonths>>

\* presence.js validateAbsenceData
validateAbsenceData(a) ==
    (IF a.memberId = "" THEN {"Member ID is required"} ELSE {})
    \cup (IF a.startDate = NoDate THEN {"Start date is required"} ELSE {})
    \cup (IF a.reason = "" THEN {"Reason is required"} ELSE {})
    \cup (IF a.endDate # NoDate /\ a.endDate < a.startDate
          THEN {"End date must be after start date"} ELSE {})

\* storage.js savePresenceRecord: the record it builds
newPresenceRecord(record) ==
    [id |-> IF record.id # 0 THEN record.id
            ELSE generateId({r.id : r \in Range(presenceRecords)}),
     memberId |-> record.memberId,
     startDate |-> record.startDate,
     endDate |-> IF record.endDate # NoDate THEN record.endDate
                 ELSE record.startDate,
     reason |-> record.reason]

\* Mutant: ranges that only touch at an end day are not seen as overlapping
overlappingInside(newRecord) ==
    {k \in DOMAIN presenceRecords :
        /\ presenceRecords[k].memberId = newRecord.memberId
        /\ ~(\/ newRecord.endDate <= presenceRecords[k].startDate
             \/ newRecord.startDate >= presenceRecords[k].endDate)}

\* storage.js savePresenceRecord: the stored records overlapping the new one
overlapping(newRecord) ==
    {k \in DOMAIN presenceRecords :
        /\ presenceRecords[k].memberId = newRecord.memberId
        /\ ~(\/ newRecord.endDate < presenceRecords[k].startDate
             \/ newRecord.startDate > presenceRecords[k].endDate)}

\* storage.js savePresenceRecord: replace the record with the same id, or push
savePresenceRecord(record) ==
    LET newRecord == newPresenceRecord(record)
        index == {k \in DOMAIN presenceRecords : presenceRecords[k].id = newRecord.id}
    IN IF index # {}
       THEN [presenceRecords EXCEPT ![CHOOSE k \in index : \A x \in index : k <= x]
                                        = newRecord]
       ELSE Append(presenceRecords, newRecord)

\* Presence.addAbsence: the errors the call throws (empty when it succeeds)
addAbsenceErrors(a) ==
    IF ~storage THEN {"Storage not available"}
    ELSE IF validateAbsenceData(a) # {} THEN validateAbsenceData(a)
    ELSE IF overlapping(newPresenceRecord(a)) # {}
    THEN {"Overlapping absence records found"}
    ELSE {}

\* Presence.addAbsence(absenceData), in a store that holds at most `most` records
AddAbsenceWithin(a, most) ==
    LET errors == addAbsenceErrors(a)
    IN /\ lastOp' = Outcome("Presence.addAbsence", errors)
       /\ errors = {} => /\ Len(presenceRecords) < most
                         /\ newPresenceRecord(a).id <= most + 1
       /\ presenceRecords' = IF errors = {} THEN savePresenceRecord(a)
                             ELSE presenceRecords
       /\ UNCHANGED <<call, ret, plannerVars, storage, west, backup, storedMembers, allExpenses,
                      lockedMonths>>

\* Presence.addAbsence(absenceData)
AddAbsence(a) == AddAbsenceWithin(a, MaxAbsences)

\* presence.js getById: the stored records with the id (none: null)
absenceById(recordId) == {r \in Range(presenceRecords) : r.id = recordId}

\* Presence.updateAbsence: { ...record, ...updates, id: recordId }
updatedData(recordId, updates) ==
    LET record == CHOOSE r \in absenceById(recordId) : TRUE
    IN Spread(Spread(record, updates), [id |-> recordId])

\* Presence.updateAbsence: the errors the call throws (empty when it succeeds)
updateAbsenceErrors(recordId, updates) ==
    IF ~storage THEN {"Storage not available"}
    ELSE IF absenceById(recordId) = {} THEN {"Absence record not found"}
    ELSE IF overlapping(newPresenceRecord(updatedData(recordId, updates))) # {}
    THEN {"Overlapping absence records found"}
    ELSE {}

\* Presence.updateAbsence(recordId, updates)
UpdateAbsence(recordId, updates) ==
    LET errors == updateAbsenceErrors(recordId, updates)
    IN /\ lastOp' = Outcome("Presence.updateAbsence", errors)
       /\ presenceRecords' =
              IF errors = {} THEN savePresenceRecord(updatedData(recordId, updates))
              ELSE presenceRecords
       /\ UNCHANGED <<call, ret, plannerVars, storage, west, backup, storedMembers, allExpenses,
                      lockedMonths>>

\* Presence.deleteAbsence(recordId), that is storage.js deletePresenceRecord
DeleteAbsence(recordId) ==
    LET errors == IF ~storage THEN {"Storage not available"} ELSE {}
        Others(r) == r.id # recordId
    IN /\ lastOp' = Outcome("Presence.deleteAbsence", errors)
       /\ presenceRecords' = IF errors = {} THEN SelectSeq(presenceRecords, Others)
                             ELSE presenceRecords
       /\ UNCHANGED <<call, ret, plannerVars, storage, west, backup, storedMembers, allExpenses,
                      lockedMonths>>

\* storage.js lockMonth(monthKey)
LockMonth(monthKey) ==
    /\ storage
    /\ lockedMonths' = lockedMonths \cup {monthKey}
    /\ lastOp' = Outcome("lockMonth", {})
    /\ UNCHANGED <<call, ret, plannerVars, storage, west, backup, storedMembers, allExpenses,
                   presenceRecords>>

\* storage.js unlockMonth(monthKey)
UnlockMonth(monthKey) ==
    /\ storage
    /\ lockedMonths' = lockedMonths \ {monthKey}
    /\ lastOp' = Outcome("unlockMonth", {})
    /\ UNCHANGED <<call, ret, plannerVars, storage, west, backup, storedMembers, allExpenses,
                   presenceRecords>>

\* storage.js exportData: the stored data as one document
exportData ==
    [version |-> TRUE, members |-> storedMembers, expenses |-> allExpenses,
     presence |-> presenceRecords, lockedMonths |-> lockedMonths]

\* storage.js importData: the error thrown before anything is written (none:
\* the empty set)
importErrors(data) ==
    IF data.format # "json" THEN {"Unsupported format"}
    ELSE IF ~data.parses THEN {"Unexpected token"}
    ELSE IF ~data.content.version THEN {"Invalid data format"}
    ELSE {}

\* storage.js importData(data, format).  A successful import first keeps an
\* export of the current data under BACKUP; a failed one imports the BACKUP
\* it finds, which again keeps an export of the current data
ImportData(data) ==
    LET errors == importErrors(data)
        imported == IF errors = {} THEN data.content ELSE backup
        writes == errors = {} \/ backup # NoBackup
    IN /\ storage
       /\ lastOp' = Outcome("Storage.importData", errors)
       /\ backup' = IF writes THEN exportData ELSE backup
       /\ storedMembers' = IF writes THEN imported.members ELSE storedMembers
       /\ allExpenses' = IF writes THEN imported.expenses ELSE allExpenses
       /\ presenceRecords' = IF writes THEN imported.presence ELSE presenceRecords
       /\ lockedMonths' = IF writes THEN imported.lockedMonths ELSE lockedMonths
       /\ UNCHANGED <<call, ret, plannerVars, storage, west>>

\* No storage-backed operation has run, and window.storage is not there
StoreUnavailable ==
    /\ storage = FALSE
    /\ west = FALSE
    /\ backup = NoBackup
    /\ storedMembers = <<>>
    /\ allExpenses = NoExpenses
    /\ presenceRecords = <<>>
    /\ lockedMonths = {}
    /\ lastOp = Outcome("none", {})

\* Storage.init() with the three members added
StoreReady ==
    /\ storage = TRUE
    /\ west = FALSE
    /\ backup = NoBackup
    /\ storedMembers = MemberList
    /\ allExpenses = NoExpenses
    /\ presenceRecords = <<>>
    /\ lockedMonths = {}
    /\ lastOp = Outcome("none", {})

\* Storage.init() with the three members added, in a browser of any time zone
StoreReadyAnywhere ==
    /\ storage = TRUE
    /\ west \in BOOLEAN
    /\ backup = NoBackup
    /\ storedMembers = MemberList
    /\ allExpenses = NoExpenses
    /\ presenceRecords = <<>>
    /\ lockedMonths = {}
    /\ lastOp = Outcome("none", {})

\* Inputs of Expense.add.  Every amount is a whole number of cents that 1, 2
\* and 3 divide, so that the unrounded shares of processAbsentMembers are exact.
ExpenseAmount == 12 * Cent

\* The share map the form hands over: shares[k] for the k-th participant, the
\* first one lowered by delta
SharesFor(splitBetween, shares, delta) ==
    Details([m \in Range(splitBetween) |->
                LET k == CHOOSE x \in DOMAIN splitBetween : splitBetween[x] = m
                IN IF k = 1 THEN shares[k] - delta ELSE shares[k]])

BaseExpense(paidBy, splitBetween, date) ==
    [title |-> "Rent", amount |-> ExpenseAmount, paidBy |-> paidBy,
     splitType |-> "equal", splitBetween |-> splitBetween,
     splitDetails |-> NoDetails, date |-> date]

EqualAddInputs ==
    {BaseExpense(p, sb, d) :
        p \in {"Alice", "Bob"}, sb \in {MemberList, <<"Bob">>}, d \in Dates}

\* Custom amounts 4 + 8 cents: exact, one cent short (within the tolerance) and
\* two cents short (beyond it)
CustomAddInputs ==
    {[BaseExpense("Alice", <<"Bob", "Carol">>, d) EXCEPT
         !.splitType = "custom",
         !.splitDetails = SharesFor(<<"Bob", "Carol">>, <<4 * Cent, 8 * Cent>>, delta)] :
        delta \in {0, Cent, 2 * Cent}, d \in Dates}

\* Percentages 25 + 75: exact, 0.1 short (within the tolerance) and 1 short
\* (beyond it)
PercentageAddInputs ==
    {[BaseExpense("Alice", <<"Bob", "Carol">>, d) EXCEPT
         !.splitType = "percentage",
         !.splitDetails = SharesFor(<<"Bob", "Carol">>,
                                    <<25 * Dollar, 75 * Dollar>>, delta)] :
        delta \in {0, 10 * Cent, Dollar}, d \in Dates}

\* A required field is missing
InvalidAddInputs ==
    {[BaseExpense("Alice", MemberList, 1) EXCEPT !.splitBetween = <<>>]}

AddInputs ==
    EqualAddInputs \cup CustomAddInputs \cup PercentageAddInputs
    \cup InvalidAddInputs

\* Absences of Bob and Carol; an end date may be missing or before the start
AbsenceInputs ==
    {[id |-> 0, memberId |-> m, startDate |-> sd, endDate |-> ed, reason |-> "Trip"] :
        m \in {"Bob", "Carol"}, sd \in Dates, ed \in Dates \cup {NoDate}}

Days == 1..MaxDay

\* Absences entered in the presence calendar; the end date may be left empty
\* or lie before the start
CalendarInputs ==
    {[id |-> 0, memberId |-> m, startDate |-> sd, endDate |-> ed, reason |-> "Trip"] :
        m \in {"Bob", "Carol"}, sd \in Days, ed \in Days \cup {NoDate}}

RecordIds == 1..(MaxRecords + 1)

\* Updates of Presence.updateAbsence: new dates, another member, another reason
AbsenceUpdates ==
    {[startDate |-> d] : d \in Days}
    \cup {[endDate |-> d] : d \in Days}
    \cup {[startDate |-> sd, endDate |-> ed] : sd \in Days, ed \in Days}
    \cup {[memberId |-> m] : m \in {"Bob", "Carol"}}
    \cup {[reason |-> "Flu"]}

\* Updates of Expense.update: a new date, a new participant list, a new amount
UpdateInputs ==
    {[date |-> d] : d \in Dates}
    \cup {[splitBetween |-> sb] : sb \in {MemberList, <<"Carol">>}}
    \cup {[amount |-> 2 * ExpenseAmount]}

\* Expenses entered while members may be away: every split mode, each with
\* shares that match, and a payer who is the only participant
AwayAddInputs ==
    {x \in AddInputs :
        /\ validateExpenseData(x) = {}
        /\ x.splitType = "equal" =>
               \/ x.paidBy = "Alice" /\ x.splitBetween = MemberList
               \/ x.paidBy = "Bob" /\ x.splitBetween = <<"Bob">>
        /\ x.splitType # "equal" =>
               SumMap(x.splitDetails.map) \in {x.amount, 100 * Dollar}}

\* Updates that make Expense.update run the absence filter
AwayUpdateInputs ==
    {[date |-> d] : d \in Dates} \cup {[splitBetween |-> <<"Bob", "Carol">>]}

\* Expenses entered in a household that locks its months
LockAddInputs == {BaseExpense("Alice", MemberList, d) : d \in Dates}

\* Payments recorded: Bob pays Alice, or (rejected) himself
SettlementInputs ==
    {[from |-> "Bob", to |-> t, amount |-> 5 * Cent, date |-> d] :
        t \in {"Alice", "Bob"}, d \in Dates}

\* Equal splits of 0.12 (1, 2 and 3 divide it into whole cents) and of 0.10
\* (3 does not)
EqualShareInputs ==
    {[BaseExpense("Alice", sb, d) EXCEPT !.amount = a] :
        sb \in {MemberList, <<"Bob", "Carol">>},
        a \in {ExpenseAmount, 10 * Cent}, d \in Dates}

\* Payments recorded between any two members, some of them invalid
PaymentInputs ==
    {[from |-> f, to |-> t, amount |-> a, date |-> d] :
        f \in {"Alice", "Bob"}, t \in {"Bob", "Carol"},
        a \in {0, 5 * Cent}, d \in Dates}

\* Documents handed to importData: a CSV file, text that is no JSON, JSON
\* without a version, and the export of a household with one locked month
ImportInputs ==
    {[format |-> "csv", parses |-> FALSE, content |-> NoBackup],
     [format |-> "json", parses |-> FALSE, content |-> NoBackup],
     [format |-> "json", parses |-> TRUE, content |-> NoBackup],
     [format |-> "json", parses |-> TRUE,
      content |-> [version |-> TRUE, members |-> <<"Alice", "Bob">>,
                   expenses |-> NoExpenses, presence |-> <<>>,
                   lockedMonths |-> {1}]]}

\* Expense ids a caller may name: the ids in use and one that is not
ExpenseIds == 1..(MaxExpenses + 1)

----
\* SettlementPlanner: calculateSettlements as a run over its local state

PlannerMembers == <<"Alice", "Bob", "Dave", "Eve">>

GetBal(b, id) == IF id \in DOMAIN b THEN b[id] ELSE 0

\* members.forEach: the members with balance > 0.01, in member order
CreditorsOf(b, memberList) ==
    LET F[k \in 0..Len(memberList)] ==
            IF k = 0 THEN <<>>
            ELSE IF GetBal(b, memberList[k]) > Cent
                 THEN Append(F[k - 1], [id |-> memberList[k],
                                        amount |-> GetBal(b, memberList[k])])
                 ELSE F[k - 1]
    IN F[Len(memberList)]

\* members.forEach: the members with balance < -0.01, amount stored positive
DebtorsOf(b, memberList) ==
    LET F[k \in 0..Len(memberList)] ==
            IF k = 0 THEN <<>>
            ELSE IF GetBal(b, memberList[k]) < -Cent
                 THEN Append(F[k - 1], [id |-> memberList[k],
                                        amount |-> -GetBal(b, memberList[k])])
                 ELSE F[k - 1]
    IN F[Len(memberList)]

RemoveAt(s, k) == [x \in 1..(Len(s) - 1) |-> IF x < k THEN s[x] ELSE s[x + 1]]

\* Array.prototype.sort((a, b) => b.amount - a.amount): stable, largest first
RECURSIVE SortByAmountDesc(_)
SortByAmountDesc(s) ==
    IF s = <<>> THEN <<>>
    ELSE LET k == CHOOSE x \in DOMAIN s :
                     /\ \A y \in DOMAIN s : s[y].amount <= s[x].amount
                     /\ \A y \in DOMAIN s : s[y].amount = s[x].amount => x <= y
         IN <<s[k]>> \o SortByAmountDesc(RemoveAt(s, k))

\* Mutant: the list lives outside the function and is never emptied
KeptSettlements(previous) == previous

\* const settlements = [] at the start of a call
FreshSettlements(previous) == <<>>

\* The balance map the loop leaves behind: the loop works on the copies in
\* creditors / debtors and never writes to balances
BalancesAfterSettle(b, creditor, debtor, settleAmount) == b

\* Lines 150-178: partition the members and sort both arrays
Partition ==
    /\ pc = "start"
    /\ creditors' = SortByAmountDesc(CreditorsOf(balances, members))
    /\ debtors' = SortByAmountDesc(DebtorsOf(balances, members))
    /\ settlements' = FreshSettlements(settlements)
    /\ i' = 0
    /\ j' = 0
    /\ pc' = "loop"
    /\ UNCHANGED <<call, ret, balances, members, run, firstResult, givenBalances, storeVars>>

\* Mutant: the settled amount is never taken off
RemainingForgotten(amount, settleAmount) == amount

\* creditor.amount -= settleAmount; debtor.amount -= settleAmount
Remaining(amount, settleAmount) == amount - settleAmount

LoopCondition == i < Len(creditors) /\ j < Len(debtors)

\* The values one pass of the while body computes from the current state
SettleAmount == Min(creditors[i + 1].amount, debtors[j + 1].amount)
Pushes == SettleAmount > Cent
CreditorLeft == IF Pushes THEN Remaining(creditors[i + 1].amount, SettleAmount)
                ELSE creditors[i + 1].amount
DebtorLeft == IF Pushes THEN Remaining(debtors[j + 1].amount, SettleAmount)
              ELSE debtors[j + 1].amount
AdvancesCreditor == CreditorLeft < Cent
AdvancesDebtor == DebtorLeft < Cent

\* Lines 182-207: one pass of the while loop
LoopIteration ==
    /\ pc = "loop"
    /\ LoopCondition
    /\ settlements' = IF Pushes
                      THEN Append(settlements, [from |-> debtors[j + 1].id,
                                                to |-> creditors[i + 1].id,
                                                amount |-> ToFixed2(SettleAmount)])
                      ELSE settlements
    /\ creditors' = [creditors EXCEPT ![i + 1].amount = CreditorLeft]
    /\ debtors' = [debtors EXCEPT ![j + 1].amount = DebtorLeft]
    /\ i' = IF AdvancesCreditor THEN i + 1 ELSE i
    /\ j' = IF AdvancesDebtor THEN j + 1 ELSE j
    /\ balances' = IF Pushes
                   THEN BalancesAfterSettle(balances, creditors[i + 1],
                                            debtors[j + 1], SettleAmount)
                   ELSE balances
    /\ UNCHANGED <<call, ret, members, pc, run, firstResult, givenBalances, storeVars>>

\* Line 209: the loop is over, the list is returned
ReturnSettlements ==
    /\ pc = "loop"
    /\ ~LoopCondition
    /\ pc' = "done"
    /\ firstResult' = IF run = 1 THEN settlements ELSE firstResult
    /\ UNCHANGED <<call, ret, balances, members, creditors, debtors, i, j,
                   settlements, run, givenBalances, storeVars>>

\* The caller runs the planner again on the same balance map and member list
RunAgain ==
    /\ pc = "done"
    /\ run = 1
    /\ run' = 2
    /\ pc' = "start"
    /\ UNCHANGED <<call, ret, balances, members, creditors, debtors, i, j,
                   settlements, firstResult, givenBalances, storeVars>>

\* Lines 181-207 as one run: the while loop from position (ci, dj) with the
\* settlements pushed so far.  A pass that pushes nothing and advances neither
\* index repeats for ever: the call does not return.
RECURSIVE SettleLoop(_, _, _, _, _)
SettleLoop(cs, ds, ci, dj, pushed) ==
    IF ~(ci < Len(cs) /\ dj < Len(ds)) THEN [returns |-> TRUE, list |-> pushed]
    ELSE LET settleAmount == Min(cs[ci + 1].amount, ds[dj + 1].amount)
             pushes == settleAmount > Cent
             creditorLeft == IF pushes THEN Remaining(cs[ci + 1].amount, settleAmount)
                             ELSE cs[ci + 1].amount
             debtorLeft == IF pushes THEN Remaining(ds[dj + 1].amount, settleAmount)
                           ELSE ds[dj + 1].amount
         IN IF ~pushes /\ creditorLeft >= Cent /\ debtorLeft >= Cent
            THEN [returns |-> FALSE, list |-> pushed]
            ELSE SettleLoop([cs EXCEPT ![ci + 1].amount = creditorLeft],
                            [ds EXCEPT ![dj + 1].amount = debtorLeft],
                            IF creditorLeft < Cent THEN ci + 1 ELSE ci,
                            IF debtorLeft < Cent THEN dj + 1 ELSE dj,
                            IF pushes
                            THEN Append(pushed, [from |-> ds[dj + 1].id,
                                                 to |-> cs[ci + 1].id,
                                                 amount |-> ToFixed2(settleAmount)])
                            ELSE pushed)

\* calculateSettlements(balances, members) as a function of its arguments
calculateSettlements(b, memberList) ==
    SettleLoop(SortByAmountDesc(CreditorsOf(b, memberList)),
               SortByAmountDesc(DebtorsOf(b, memberList)), 0, 0, <<>>)

\* Settlement.getSettlements(monthKey)
getSettlements(monthKey) ==
    IF Len(getAll(monthKey)) = 0 \/ Len(storedMembers) = 0
    THEN [returns |-> TRUE, list |-> <<>>]
    ELSE calculateSettlements(calculateBalances(getAll(monthKey), storedMembers),
                              storedMembers)

\* The instructions of a month, each to be recorded on the given date
settleUpData(monthKey, date) ==
    LET list == getSettlements(monthKey).list
    IN [k \in DOMAIN list |->
           [from |-> list[k].from, to |-> list[k].to,
            amount |-> list[k].amount, date |-> date]]

\* processBatchSettlements: the settlements of the batch that fail
failedOf(settlementsData) ==
    {k \in DOMAIN settlementsData : recordSettlementErrors(settlementsData[k]) # {}}

\* processBatchSettlements: the expenses that the successful settlements of
\* the batch add to the store, with ids generated one after the other
recordedOf(settlementsData) ==
    LET Succeeds(s) == recordSettlementErrors(s) = {}
        successful == SelectSeq(settlementsData, Succeeds)
        lastId == MaxOf({e.id : e \in StoredExpenses})
    IN [k \in DOMAIN successful |->
           [newExpense(processAbsentMembers(settlementExpense(successful[k])))
               EXCEPT !.id = lastId + k]]

\* Settlement.processBatchSettlements(getSettlements(monthKey)), every
\* instruction dated `date`: recordSettlement for each, one after the other
SettleUp(monthKey, date) ==
    LET settlementsData == settleUpData(monthKey, date)
        recorded == recordedOf(settlementsData)
        bucketKey == MonthKeyOf(date)
        bucket == IF bucketKey \in DOMAIN allExpenses THEN allExpenses[bucketKey]
                  ELSE <<>>
    IN /\ getSettlements(monthKey).returns
       /\ Cardinality(StoredExpenses) + Len(recorded) <= MaxExpenses + 2
       /\ lastOp' = Spread(Outcome("Settlement.processBatchSettlements",
                                   UNION {recordSettlementErrors(settlementsData[k]) :
                                             k \in failedOf(settlementsData)}),
                           [month |-> monthKey, date |-> date])
       /\ allExpenses' = IF Len(recorded) = 0 THEN allExpenses
                         ELSE [k \in (DOMAIN allExpenses) \cup {bucketKey} |->
                                  IF k = bucketKey THEN bucket \o recorded
                                  ELSE allExpenses[k]]
       /\ UNCHANGED <<call, ret, plannerVars, storage, west, backup, storedMembers,
                      presenceRecords, lockedMonths>>

\* An update that lowers the amount of an expense
LowerAmount == [amount |-> 4 * Cent]

DollarValues == {-8 * Dollar, -7 * Dollar, 0, 5 * Dollar, 10 * Dollar}

PlannerInputs ==
    {[members |-> MemberList, balances |-> b] :
        b \in [MemberIds -> (-MaxBal)..MaxBal]}
    \cup {[members |-> PlannerMembers, balances |-> b] :
        b \in [Range(PlannerMembers) -> DollarValues]}

CalcIdle ==
    /\ call = [fn |-> "none"]
    /\ ret = Pending

PlannerIdle ==
    /\ balances = EmptyMap
    /\ members = <<>>
    /\ creditors = <<>>
    /\ debtors = <<>>
    /\ i = 0
    /\ j = 0
    /\ settlements = <<>>
    /\ pc = "idle"
    /\ run = 0
    /\ firstResult = <<>>
    /\ givenBalances = EmptyMap

InitPlanner ==
    /\ CalcIdle
    /\ StoreUnavailable
    /\ \E in \in PlannerInputs :
          /\ balances = in.balances
          /\ members = in.members
          /\ givenBalances = in.balances
    /\ creditors = <<>>
    /\ debtors = <<>>
    /\ i = 0
    /\ j = 0
    /\ settlements = <<>>
    /\ pc = "start"
    /\ run = 1
    /\ firstResult = <<>>

NextPlanner ==
    \/ Partition
    \/ LoopIteration
    \/ ReturnSettlements
    \/ RunAgain

SpecPlanner == InitPlanner /\ [][NextPlanner]_vars


----
\* Calls of the pure functions of the Calculate module

EqualSplitInputs ==
    {[fn |-> "calculateEqualSplit", amount |-> a, participants |-> ps] :
        a \in (0..MaxAmount) \cup {90 * Dollar},
        ps \in SeqsNoDup(MemberIds, Cardinality(MemberIds))}

Scenario3Call ==
    [fn |-> "calculateCustomSplit", amount |-> 100 * Dollar,
     splitDetails |-> Details([m \in {"Alice", "Bob"} |->
                                 IF m = "Alice" THEN 40 * Dollar ELSE 70 * Dollar])]

CustomSplitInputs ==
    {[fn |-> "calculateCustomSplit", amount |-> a, splitDetails |-> d] :
        a \in {0} \cup (Cent..(2 * Cent)),
        d \in {NoDetails}
              \cup {Details(m) : m \in MapsOver({"Alice", "Bob"}, 0..MaxShare)}}
    \cup {Scenario3Call}

\* Percentages around a half, a quarter and the whole, in steps that land on
\* both sides of the tolerance 0.1
PercentValues ==
    {0, 25 * Dollar, 50 * Dollar - 11 * Cent, 50 * Dollar - 10 * Cent, 50 * Dollar,
     50 * Dollar + 10 * Cent, 50 * Dollar + 11 * Cent, 75 * Dollar, 100 * Dollar}

PercentageSplitInputs ==
    {[fn |-> "calculatePercentageSplit", amount |-> a, percentageDetails |-> d] :
        a \in {0, Cent, 7 * Cent, 10 * Dollar},
        d \in {NoDetails}
              \cup {Details(m) : m \in MapsOver({"Alice", "Bob"}, PercentValues)}}

\* Expenses as calculateBalances reads them: payer and participants are known
\* members, and the share map (amount / count each) sums to the amount
BalanceExpenses ==
    {[paidBy |-> p, amount |-> a,
      splitBetween |-> ps,
      splitDetails |-> Details([m \in Range(ps) |-> Quot(a, Len(ps))])] :
        p \in MemberIds, a \in {Cent * Cent, 90 * Dollar},
        ps \in {q \in SeqsNoDup(MemberIds, Cardinality(MemberIds)) :
                    /\ Len(q) > 0
                    /\ \A k \in 1..(Len(q) - 1) :
                          \E x, y \in DOMAIN MemberList :
                              x < y /\ MemberList[x] = q[k] /\ MemberList[y] = q[k + 1]}}

\* The expenses every member takes part in
SharedExpenses ==
    {e \in BalanceExpenses : e.amount = 90 * Dollar /\ e.splitBetween = MemberList}

BalancesInputs ==
    {[fn |-> "calculateBalances", expenses |-> es, members |-> MemberList] :
        es \in UNION {[1..n -> BalanceExpenses] : n \in 0..MaxExpenseList}}

\* Records calculateBalances cannot read: a null entry, participants given as
\* a string, participants given as a number
MalformedExpenses ==
    {Null,
     [paidBy |-> "Alice", amount |-> 90 * Dollar, splitDetails |-> NoDetails,
      splitBetween |-> <<"B", "o", "b">>, splitBetweenIs |-> "string"],
     [paidBy |-> "Alice", amount |-> 90 * Dollar, splitDetails |-> NoDetails,
      splitBetween |-> <<>>, splitBetweenIs |-> "number"]}

\* Expense lists with one malformed record among well-formed ones
FaultyBalancesInputs ==
    {[fn |-> "calculateBalances", expenses |-> es, members |-> MemberList] :
        es \in {l \in UNION {[1..n -> SharedExpenses \cup MalformedExpenses] :
                                n \in 1..(MaxExpenseList + 1)} :
                   Cardinality({k \in DOMAIN l : l[k] \in MalformedExpenses}) = 1}}

CalcInputs ==
    EqualSplitInputs \cup CustomSplitInputs \cup PercentageSplitInputs
    \cup BalancesInputs

CallEqualSplit ==
    /\ call.fn = "calculateEqualSplit"
    /\ ret = Pending
    /\ ret' = calculateEqualSplit(call.amount, call.participants)
    /\ UNCHANGED <<call, plannerVars, storeVars>>

CallCustomSplit ==
    /\ call.fn = "calculateCustomSplit"
    /\ ret = Pending
    /\ ret' = calculateCustomSplit(call.amount, call.splitDetails)
    /\ UNCHANGED <<call, plannerVars, storeVars>>

CallPercentageSplit ==
    /\ call.fn = "calculatePercentageSplit"
    /\ ret = Pending
    /\ ret' = calculatePercentageSplit(call.amount, call.percentageDetails)
    /\ UNCHANGED <<call, plannerVars, storeVars>>

CallBalances ==
    /\ call.fn = "calculateBalances"
    /\ ret = Pending
    /\ ret' = Returned(calculateBalances(call.expenses, call.members))
    /\ UNCHANGED <<call, plannerVars, storeVars>>

InitCalc ==
    /\ call \in CalcInputs
    /\ ret = Pending
    /\ PlannerIdle
    /\ StoreUnavailable

NextCalc ==
    \/ CallEqualSplit
    \/ CallCustomSplit
    \/ CallPercentageSplit
    \/ CallBalances

SpecCalc == InitCalc /\ [][NextCalc]_vars

\* calculateBalances given a list with a malformed record
InitFaulty ==
    /\ call \in FaultyBalancesInputs
    /\ ret = Pending
    /\ PlannerIdle
    /\ StoreUnavailable

NextFaulty == CallBalances

SpecFaulty == InitFaulty /\ [][NextFaulty]_vars

\* A session on the store
Init == CalcIdle /\ PlannerIdle /\ StoreReady

Next ==
    \/ \E d \in AddInputs : ExpenseAdd(d)
    \/ \E a \in AbsenceInputs : AddAbsence(a)
    \/ \E m \in Months : LockMonth(m)
    \/ \E m \in Months : UnlockMonth(m)

Spec == Init /\ [][Next]_vars

\* Custom splits: either a session on the store, or a call of
\* calculateCustomSplit in a page where window.storage is missing
InitCustom ==
    \/ Init
    \/ /\ call \in CustomSplitInputs
       /\ ret = Pending
       /\ PlannerIdle
       /\ StoreUnavailable

NextCustom ==
    \/ Next
    \/ CallCustomSplit

SpecCustom == InitCustom /\ [][NextCustom]_vars

\* Expenses added and updated while members are away
NextExpense ==
    \/ \E d \in AwayAddInputs : ExpenseAdd(d)
    \/ \E id \in ExpenseIds, u \in AwayUpdateInputs : ExpenseUpdate(id, u)
    \/ \E a \in AbsenceInputs : AddAbsence(a)

SpecExpense == Init /\ [][NextExpense]_vars

\* Expenses added, updated, deleted and settled while months are locked and
\* unlocked, in a browser of any time zone
InitLock == CalcIdle /\ PlannerIdle /\ StoreReadyAnywhere

NextLock ==
    \/ \E d \in LockAddInputs : ExpenseAdd(d)
    \/ \E id \in ExpenseIds, u \in UpdateInputs : ExpenseUpdate(id, u)
    \/ \E id \in ExpenseIds : ExpenseRemove(id)
    \/ \E s \in SettlementInputs : RecordSettlement(s)
    \/ \E m \in Months : LockMonth(m)
    \/ \E m \in Months : UnlockMonth(m)

SpecLock == InitLock /\ [][NextLock]_vars

\* Payments recorded while members are away and months get locked
NextSettle ==
    \/ \E s \in PaymentInputs : RecordSettlement(s)
    \/ \E a \in AbsenceInputs : AddAbsence(a)
    \/ \E id \in ExpenseIds : ExpenseRemove(id)
    \/ \E m \in Months : LockMonth(m)
    \/ \E m \in Months : UnlockMonth(m)

SpecSettle == Init /\ [][NextSettle]_vars

\* Absences added, changed and deleted in a household that has expenses
NextAbsent ==
    \/ \E d \in AwayAddInputs : ExpenseAdd(d)
    \/ \E a \in AbsenceInputs : AddAbsence(a)
    \/ \E id \in RecordIds, u \in AbsenceUpdates : UpdateAbsence(id, u)
    \/ \E id \in RecordIds : DeleteAbsence(id)

SpecAbsent == Init /\ [][NextAbsent]_vars

\* Equal splits entered while members may be away
NextEqual ==
    \/ \E d \in EqualShareInputs : ExpenseAdd(d)
    \/ \E a \in AbsenceInputs : AddAbsence(a)
    \/ \E id \in ExpenseIds : ExpenseRemove(id)
    \/ \E id \in RecordIds : DeleteAbsence(id)

SpecEqual == Init /\ [][NextEqual]_vars

\* A household that settles up at the end of the month
NextSettleUp ==
    \/ \E d \in EqualAddInputs : ExpenseAdd(d)
    \/ \E id \in ExpenseIds : ExpenseUpdate(id, LowerAmount)
    \/ \E a \in AbsenceInputs : AddAbsence(a)
    \/ \E m \in Months, d \in Dates : SettleUp(m, d)
    \/ \E m \in Months : LockMonth(m)
    \/ \E m \in Months : UnlockMonth(m)

SpecSettleUp == Init /\ [][NextSettleUp]_vars

\* Expenses added, updated and deleted, in a browser on UTC
NextBucket ==
    \/ \E d \in EqualAddInputs : ExpenseAdd(d)
    \/ \E id \in ExpenseIds, u \in UpdateInputs : ExpenseUpdate(id, u)
    \/ \E id \in ExpenseIds : ExpenseRemove(id)

SpecBucket == Init /\ [][NextBucket]_vars

\* A household that imports documents between its entries
NextImport ==
    \/ \E data \in ImportInputs : ImportData(data)
    \/ \E d \in LockAddInputs : ExpenseAdd(d)
    \/ \E a \in AbsenceInputs : AddAbsence(a)
    \/ \E m \in Months : LockMonth(m)

SpecImport == Init /\ [][NextImport]_vars

\* Members deleted from a household that has expenses and absences
NextMembers ==
    \/ \E d \in AwayAddInputs : ExpenseAdd(d)
    \/ \E id \in ExpenseIds, u \in UpdateInputs : ExpenseUpdate(id, u)
    \/ \E a \in AbsenceInputs : AddAbsence(a)
    \/ \E m \in MemberIds : DeleteMember(m)

SpecMembers == Init /\ [][NextMembers]_vars

\* The presence calendar: absences added, changed and deleted
NextPresence ==
    \/ \E a \in CalendarInputs : AddAbsenceWithin(a, MaxRecords)
    \/ \E id \in RecordIds, u \in AbsenceUpdates : UpdateAbsence(id, u)
    \/ \E id \in RecordIds : DeleteAbsence(id)

SpecPresence == Init /\ [][NextPresence]_vars

\* Expenses of every kind added and updated in any field
NextShare ==
    \/ \E d \in AddInputs : ExpenseAdd(d)
    \/ \E id \in ExpenseIds, u \in UpdateInputs : ExpenseUpdate(id, u)
    \/ \E a \in AbsenceInputs : AddAbsence(a)

SpecShare == Init /\ [][NextShare]_vars

----
\* Properties of the split calculator and the balance aggregator

\* The expense list of a calculateBalances call is well formed: payer and
\* participants are known members and every share map sums to the amount
WellFormedExpenses(es) ==
    \A k \in DOMAIN es :
        /\ es[k].paidBy \in MemberIds
        /\ Range(es[k].splitBetween) \subseteq MemberIds
        /\ es[k].splitDetails.present
        /\ DOMAIN es[k].splitDetails.map \subseteq MemberIds
        /\ SumMap(es[k].splitDetails.map) = es[k].amount

\* C1: conservation law: over well-formed expenses the balances returned by
\* calculateBalances sum to zero within 0.01 per member, also when the payer
\* is one of the participants.
C1_BalancesSumToZero ==
    (call.fn = "calculateBalances" /\ ret.ok /\ WellFormedExpenses(call.expenses))
        => Abs(SumMap(ret.val)) <= Cent * Len(call.members)

Scenario1Expense ==
    [paidBy |-> "Alice", amount |-> 90 * Dollar, splitBetween |-> MemberList,
     splitDetails |-> Details([m \in MemberIds |-> 30 * Dollar])]

\* C3: Scenario 1: one expense of 90 paid by Alice, split equally among Alice,
\* Bob and Carol, gives balances Alice +60, Bob -30, Carol -30.
C3_Scenario1Balances ==
    (call.fn = "calculateBalances" /\ ret.ok /\ call.expenses = <<Scenario1Expense>>)
        => ret.val = [m \in MemberIds |->
                         IF m = "Alice" THEN 60 * Dollar ELSE -30 * Dollar]

\* C9: for amount > 0 and a non-empty participant list calculateEqualSplit
\* returns one and the same share for every participant, that share is
\* amount / count rounded to 2 decimals (a whole number of cents at most half
\* a cent away from amount / count), and the shares sum to the amount within
\* 0.01 * count.
C9_EqualSplit ==
    (call.fn = "calculateEqualSplit" /\ ret # Pending
        /\ call.amount > 0 /\ Len(call.participants) > 0)
        => LET n == Len(call.participants)
           IN /\ ret.ok
              /\ DOMAIN ret.val = Range(call.participants)
              /\ \A p, q \in DOMAIN ret.val : ret.val[p] = ret.val[q]
              /\ \A p \in DOMAIN ret.val :
                    /\ ret.val[p] % Cent = 0
                    /\ 2 * Abs(n * ret.val[p] - call.amount) <= n * Cent
              /\ Abs(SumMap(ret.val) - call.amount) <= Cent * n

C9_Witness ==
    /\ call.fn = "calculateEqualSplit"
    /\ ret.ok
    /\ Len(call.participants) = 3
    /\ call.amount = MaxAmount
    /\ SumMap(ret.val) # call.amount

----
\* Properties of the settlement planner (checked under SpecPlanner)

IsCreditor(m) == GetBal(givenBalances, m) > Cent
IsDebtor(m) == GetBal(givenBalances, m) < -Cent
NumCreditors == Cardinality({m \in Range(members) : IsCreditor(m)})
NumDebtors == Cardinality({m \in Range(members) : IsDebtor(m)})

RECURSIVE SumSeq(_)
SumSeq(s) == IF s = <<>> THEN 0 ELSE Head(s) + SumSeq(Tail(s))

\* Total paid by / received by member m over an instruction list
PaidBy(list, m) ==
    SumSeq([k \in DOMAIN list |-> IF list[k].from = m THEN list[k].amount ELSE 0])
ReceivedBy(list, m) ==
    SumSeq([k \in DOMAIN list |-> IF list[k].to = m THEN list[k].amount ELSE 0])

\* Balance of m after every instruction of the list has been applied
SettledBalance(list, m) ==
    GetBal(givenBalances, m) + PaidBy(list, m) - ReceivedBy(list, m)

\* C2: for a balance map that sums to zero, applying every returned
\* instruction (add the amount to `from`, subtract it from `to`) leaves every
\* member within 0.01 of zero.
C2_SettlementClearsBalances ==
    (pc = "done" /\ SumMap(givenBalances) = 0)
        => \A m \in Range(members) : Abs(SettledBalance(settlements, m)) <= Cent

Scenario2Balances ==
    [m \in Range(PlannerMembers) |->
        CASE m = "Alice" -> 10 * Dollar
          [] m = "Bob" -> -8 * Dollar
          [] m = "Dave" -> 5 * Dollar
          [] m = "Eve" -> -7 * Dollar]

\* C4: for balances Alice +10, Bob -8, Dave +5, Eve -7 the planner returns
\* exactly: 1. Bob pays Alice 8, 2. Eve pays Dave 5, 3. Eve pays Alice 2.
C4_Scenario2Documented ==
    (pc = "done" /\ members = PlannerMembers /\ givenBalances = Scenario2Balances)
        => settlements = << [from |-> "Bob", to |-> "Alice", amount |-> 8 * Dollar],
                            [from |-> "Eve", to |-> "Dave", amount |-> 5 * Dollar],
                            [from |-> "Eve", to |-> "Alice", amount |-> 2 * Dollar] >>

\* C5: the sweep terminates: every pass of the loop advances the creditor
\* pointer or the debtor pointer, also when a remainder is exactly 0.01.
C5_EveryIterationAdvances ==
    (pc = "loop" /\ LoopCondition) => (AdvancesCreditor \/ AdvancesDebtor)

\* C6: with at least one creditor and one debtor the planner emits at most
\* creditors + debtors - 1 instructions; with no creditor or no debtor none.
C6_TransactionBound ==
    IF NumCreditors >= 1 /\ NumDebtors >= 1
    THEN Len(settlements) <= NumCreditors + NumDebtors - 1
    ELSE settlements = <<>>

C6_Witness ==
    /\ pc = "done"
    /\ NumCreditors = 2
    /\ NumDebtors = 2
    /\ Len(settlements) = 3

\* C7: every instruction has an amount strictly greater than 0.01, is paid by
\* a member with balance < -0.01 to a member with balance > 0.01.
C7_InstructionsWellFormed ==
    \A k \in DOMAIN settlements :
        /\ settlements[k].amount > Cent
        /\ IsDebtor(settlements[k].from)
        /\ IsCreditor(settlements[k].to)

\* C8: a second run on the same balance map and member list returns the same
\* instruction list, and no run modifies the balance map it was given.
C8_PlannerIdempotent ==
    /\ balances = givenBalances
    /\ (pc = "done" /\ run = 2) => settlements = firstResult

C8_Witness ==
    /\ pc = "done"
    /\ run = 2
    /\ Len(settlements) >= 2
    /\ balances = givenBalances

----
\* Properties of custom splits (checked under SpecCustom)

\* The per-participant amounts of a custom split differ from the expense
\* amount by more than 0.01
CustomMismatch(amount, shares) == Abs(SumMap(shares) - amount) > Cent

\* Everything but the split of the input is in order, and the store takes it
OtherwiseAccepted(d) ==
    /\ storage
    /\ d.title # ""
    /\ d.amount > 0
    /\ d.paidBy # ""
    /\ Len(d.splitBetween) > 0
    /\ d.date # NoDate
    /\ MonthKeyOf(d.date) \notin lockedMonths

C10_CalculateCustomSplit ==
    (call.fn = "calculateCustomSplit" /\ ret # Pending /\ call.splitDetails.present)
        => /\ CustomMismatch(call.amount, call.splitDetails.map) => ~ret.ok
           /\ (call.amount > 0 /\ ~CustomMismatch(call.amount, call.splitDetails.map))
                  => ret.ok

C10_ExpenseAddStep ==
    lastOp'.op = "Expense.add" =>
        /\ ~lastOp'.ok => allExpenses' = allExpenses
        /\ \A d \in {x \in AddInputs : x.splitType = "custom" /\ x.splitDetails.present} :
              ExpenseAdd(d) =>
                  /\ CustomMismatch(d.amount, d.splitDetails.map) => ~lastOp'.ok
                  /\ (~CustomMismatch(d.amount, d.splitDetails.map)
                         /\ OtherwiseAccepted(d))
                        => /\ lastOp'.ok
                           /\ Cardinality(StoredExpenses') =
                                  Cardinality(StoredExpenses) + 1

\* C10: a custom split is rejected with an error whenever its amounts differ
\* from the expense amount by more than 0.01, and accepted when they do not
\* (given a valid amount and, for Expense.add, otherwise valid data in an
\* unlocked month), both in calculateCustomSplit and in Expense.add; a
\* rejected Expense.add stores no expense.
C10_CustomSplitMismatchRejected ==
    [](C10_CalculateCustomSplit) /\ [][C10_ExpenseAddStep]_vars

C10_Witness ==
    /\ lastOp = Outcome("Expense.add",
                        {"Custom splits total doesn't match expense amount"})
    /\ storage
    /\ lockedMonths = {}
    /\ StoredExpenses = {}

----
\* Properties of percentage splits (checked under SpecCalc)

\* The percentages sum to a value more than 0.1 away from 100
PercentageMismatch(percentages) == Abs(SumMap(percentages) - 100 * Dollar) > 10 * Cent

\* C11: given a percentage map and a valid amount, calculatePercentageSplit
\* throws exactly when the percentages sum to a value more than 0.1 away from
\* 100; otherwise every participant's share is amount * percentage / 100
\* rounded to 2 decimals (a whole number of cents at most half a cent away).
C11_PercentageSplit ==
    (call.fn = "calculatePercentageSplit" /\ ret # Pending
        /\ call.percentageDetails.present /\ call.amount > 0)
        => LET pct == call.percentageDetails.map
           IN /\ ret.ok <=> ~PercentageMismatch(pct)
              /\ ret.ok =>
                    /\ DOMAIN ret.val = DOMAIN pct
                    /\ \A p \in DOMAIN pct :
                          /\ ret.val[p] % Cent = 0
                          /\ 2 * Abs(ret.val[p] * 100 * Dollar - call.amount * pct[p])
                                 <= Cent * 100 * Dollar

\* Percentages 49.9 + 50 are accepted, and the shares of 0.07 are rounded
C11_Witness ==
    /\ call.fn = "calculatePercentageSplit"
    /\ call.amount = 7 * Cent
    /\ call.percentageDetails.present
    /\ SumMap(call.percentageDetails.map) = 100 * Dollar - 10 * Cent
    /\ ret.ok
    /\ \E p \in DOMAIN ret.val :
          ret.val[p] * 100 * Dollar # call.amount * call.percentageDetails.map[p]

----
\* Properties of the absence filter (checked under SpecExpense)

\* The absence filter has done its work on the stored expense e, whose intended
\* participants were `intended`: no absent member is left in the participant
\* list or the share map, but for the payer standing in for an absent household
Away(date) ==
    {m \in Range(storedMembers) :
        \E r \in Range(presenceRecords) :
            r.memberId = m /\ r.startDate <= date /\ date <= r.endDate}

Filtered(e, intended) ==
    \A m \in Away(e.date) :
        (m \in Range(e.splitBetween) \/ m \in DOMAIN e.splitDetails)
            => /\ Range(intended) \subseteq Away(e.date)
               /\ m = e.paidBy
               /\ e.splitBetween = <<m>>

C12_AddStep ==
    \A d \in AwayAddInputs :
        (ExpenseAdd(d) /\ lastOp'.ok)
            => \A e \in StoredExpenses' \ StoredExpenses : Filtered(e, d.splitBetween)

C12_UpdateStep ==
    \A id \in ExpenseIds, u \in AwayUpdateInputs :
        (ExpenseUpdate(id, u) /\ lastOp'.ok)
            => \A e \in getById(id)' :
                  Filtered(e, mergedData(id, u).splitBetween)

\* C12: after Expense.add, and after Expense.update with a date or a
\* participant list, no member whose absence record covers the expense date
\* (both ends inclusive) is a key of the stored share map or an element of the
\* stored participant list, in every split mode, unless all intended
\* participants were absent and the member is the payer, then the sole
\* participant.
C12_AbsentMembersExcluded ==
    [][(lastOp'.op = "Expense.add" => C12_AddStep)
       /\ (lastOp'.op = "Expense.update" => C12_UpdateStep)]_vars

\* An update has moved a custom expense of Bob and Carol into Bob's absence:
\* Carol is left alone in the list and in the share map
C12_Witness ==
    /\ lastOp = Outcome("Expense.update", {})
    /\ \E e \in StoredExpenses :
          /\ e.splitType = "custom"
          /\ "Bob" \in Away(e.date)
          /\ e.splitBetween = <<"Carol">>
          /\ DOMAIN e.splitDetails = {"Carol"}

\* The payer stands in: Bob pays for himself alone and is away on the date
C12_WitnessFallback ==
    /\ lastOp = Outcome("Expense.add", {})
    /\ \E e \in StoredExpenses :
          /\ e.paidBy = "Bob"
          /\ "Bob" \in Away(e.date)
          /\ e.splitBetween = <<"Bob">>

----
\* Properties of the stored share maps (checked under SpecShare)

\* C13: after any sequence of Expense.add and Expense.update operations (any
\* split mode, with or without absences, updates of any field including the
\* amount) the share map of every stored expense sums to the expense's amount
\* within 0.01.
C13_SharesSumToAmount ==
    \A e \in StoredExpenses : Abs(SumMap(e.splitDetails) - e.amount) <= Cent

----
\* Properties of month locking (checked under SpecLock)

\* The step was rejected and stored nothing
Rejected == ~lastOp'.ok /\ allExpenses' = allExpenses

\* saveExpense, reached through Expense.add: refused for a date in a locked
\* month, accepted for a date in a month that is not locked
C14_SaveStep ==
    \A d \in LockAddInputs :
        ExpenseAdd(d) =>
            IF MonthOfDay(d.date) \in lockedMonths THEN Rejected ELSE lastOp'.ok

\* updateExpense, reached through Expense.update: refused for an expense stored
\* under a locked month, accepted for one stored under a month not locked
C14_UpdateStep ==
    \A id \in ExpenseIds, u \in UpdateInputs :
        (ExpenseUpdate(id, u) /\ getById(id) # {}) =>
            IF BucketsOf(id) \cap lockedMonths # {} THEN Rejected ELSE lastOp'.ok

\* deleteExpense, reached through Expense.remove: the same
C14_DeleteStep ==
    \A id \in ExpenseIds :
        (ExpenseRemove(id) /\ getById(id) # {}) =>
            IF BucketsOf(id) \cap lockedMonths # {} THEN Rejected ELSE lastOp'.ok

\* C14: while month M is locked, saving an expense dated in M and updating or
\* deleting an expense stored under M fail with an error and leave the stored
\* expenses unchanged; once M is unlocked the same operations succeed.
C14_LockedMonthGuard ==
    [][/\ lastOp'.op = "Expense.add" => C14_SaveStep
       /\ lastOp'.op = "Expense.update" => C14_UpdateStep
       /\ lastOp'.op = "Expense.remove" => C14_DeleteStep
       /\ \A m \in Months : UnlockMonth(m) => m \notin lockedMonths']_vars

\* The stored expenses whose date falls in the month
DatedIn(month) == {e \in StoredExpenses : MonthOfDay(e.date) = month}

\* C15: from lockMonth(M) until unlockMonth(M), under any sequence of expense
\* add, update (also of the date), delete and settlement-recording operations,
\* the set of stored expenses dated in M, and their contents, do not change.
C15_LockedMonthsImmutable ==
    [][\A month \in lockedMonths \cap lockedMonths' :
          DatedIn(month)' = DatedIn(month)]_vars

----
\* Properties of member deletion (checked under SpecMembers)

\* The member ids a stored expense refers to
ReferencedBy(e) == {e.paidBy} \cup Range(e.splitBetween) \cup DOMAIN e.splitDetails

\* deleteMember is refused for the payer or a participant of a stored expense,
\* and then changes nothing
C16_RejectedStep ==
    \A m \in MemberIds :
        (DeleteMember(m)
            /\ \E e \in StoredExpenses : e.paidBy = m \/ m \in Range(e.splitBetween))
            => /\ ~lastOp'.ok
               /\ UNCHANGED <<storedMembers, allExpenses, presenceRecords>>

\* deleteMember leaves no stored expense referring to the member it removed
C16_NoDanglingStep ==
    \A e \in StoredExpenses' :
        ReferencedBy(e) \cap Range(storedMembers) \subseteq Range(storedMembers')

\* C16: deleteMember(m) is rejected with an error, and leaves members,
\* expenses and absence records unchanged, whenever a stored expense has m as
\* payer or participant; consequently deleteMember never makes a stored
\* expense reference a member that no longer exists.
C16_ExpenseReferencesKept ==
    [][lastOp'.op = "Members.remove" => (C16_RejectedStep /\ C16_NoDanglingStep)]_vars

\* C17: deleteMember(m) is rejected with an error, and leaves members and
\* absence records unchanged, whenever a stored absence record has
\* memberId = m.
C17_AbsenceReferencesKept ==
    [][lastOp'.op = "Members.remove" =>
          \A m \in MemberIds :
              (DeleteMember(m) /\ \E r \in Range(presenceRecords) : r.memberId = m)
                  => /\ ~lastOp'.ok
                     /\ UNCHANGED <<storedMembers, presenceRecords>>]_vars

----
\* Properties of the presence calendar (checked under SpecPresence)

\* The days of an absence record, both end days included
DaysOf(r) == r.startDate .. r.endDate

\* The stored records of a member whose days meet those of the range, the
\* record `except` left aside
Meets(memberId, startDate, endDate, except) ==
    {r \in Range(presenceRecords) :
        /\ r.id # except
        /\ r.memberId = memberId
        /\ DaysOf(r) \cap (startDate .. endDate) # {}}

C18_NoOverlap ==
    \A k1, k2 \in DOMAIN presenceRecords :
        (k1 # k2 /\ presenceRecords[k1].memberId = presenceRecords[k2].memberId)
            => DaysOf(presenceRecords[k1]) \cap DaysOf(presenceRecords[k2]) = {}

\* A save whose range meets that of another record of the member is refused
C18_RejectStep ==
    /\ lastOp'.op = "Presence.addAbsence" => \A a \in CalendarInputs :
           (/\ Meets(a.memberId, a.startDate,
                        IF a.endDate # NoDate THEN a.endDate ELSE a.startDate, 0) # {}
            /\ AddAbsenceWithin(a, MaxRecords))
               => (~lastOp'.ok /\ presenceRecords' = presenceRecords)
    /\ lastOp'.op = "Presence.updateAbsence" => \A id \in RecordIds, u \in AbsenceUpdates :
           (/\ absenceById(id) # {}
            /\ LET d == updatedData(id, u)
               IN Meets(d.memberId, d.startDate, d.endDate, id) # {}
            /\ UpdateAbsence(id, u))
               => (~lastOp'.ok /\ presenceRecords' = presenceRecords)

\* C18: after any sequence of addAbsence, updateAbsence and deleteAbsence
\* operations no two stored absence records of the same member have
\* intersecting inclusive date ranges; an insert that would overlap is
\* rejected and leaves the records unchanged.
C18_AbsencesNeverOverlap ==
    []C18_NoOverlap /\ [][C18_RejectStep]_vars

\* Two absences of one member are stored and a third, overlapping, was refused
C18_Witness ==
    /\ Len(presenceRecords) = 2
    /\ presenceRecords[1].memberId = presenceRecords[2].memberId
    /\ presenceRecords[1].startDate <= presenceRecords[1].endDate
    /\ presenceRecords[2].startDate <= presenceRecords[2].endDate
    /\ lastOp.op = "Presence.addAbsence"
    /\ lastOp.errors = {"Overlapping absence records found"}

C19_DatesInOrder ==
    \A r \in Range(presenceRecords) : r.endDate >= r.startDate

\* An add or update that would store an end date before the start date is refused
C19_RejectStep ==
    /\ lastOp'.op = "Presence.addAbsence" => \A a \in CalendarInputs :
           (/\ a.endDate # NoDate /\ a.endDate < a.startDate
            /\ AddAbsenceWithin(a, MaxRecords))
               => (~lastOp'.ok /\ presenceRecords' = presenceRecords)
    /\ lastOp'.op = "Presence.updateAbsence" => \A id \in RecordIds, u \in AbsenceUpdates :
           (/\ absenceById(id) # {}
            /\ LET d == updatedData(id, u) IN d.endDate < d.startDate
            /\ UpdateAbsence(id, u))
               => (~lastOp'.ok /\ presenceRecords' = presenceRecords)

\* C19: after any sequence of addAbsence and updateAbsence operations every
\* stored absence record has endDate >= startDate (endDate defaulting to
\* startDate when not given); an add or update that would store
\* endDate < startDate is rejected.
C19_AbsenceDatesOrdered ==
    []C19_DatesInOrder /\ [][C19_RejectStep]_vars

----
\* Properties of calculateBalances on a list with a malformed record (checked
\* under SpecFaulty)

Malformed(expense) == IsNull(expense) \/ NotArray(expense)

WellFormedOnly(expenses) ==
    LET Sound(expense) == ~Malformed(expense)
    IN SelectSeq(expenses, Sound)

\* C20: when the expense list passed to calculateBalances contains one
\* malformed record (a null entry or one with a non-iterable participant
\* field) among well-formed ones, the malformed record is skipped and the
\* returned balance map equals the map computed from the well-formed records
\* alone, still covering every member.
C20_MalformedRecordSkipped ==
    (/\ call.fn = "calculateBalances"
     /\ ret # Pending
     /\ Len(WellFormedOnly(call.expenses)) = Len(call.expenses) - 1)
        => /\ ret.val = calculateBalances(WellFormedOnly(call.expenses), call.members)
           /\ Range(call.members) \subseteq DOMAIN ret.val

----
\* Properties of settlement recording (checked under SpecSettle)

\* The balances of the members over the expenses of a month
MonthBalances(month) == calculateBalances(getAll(month), storedMembers)

\* C21: for every valid instruction {from, to, amount} (from # to,
\* 0 < amount <= 1,000,000) in an unlocked month, recordSettlement stores one
\* new settlement expense paid by `from`, so that the balances recomputed over
\* the month of the settlement date change by +amount for `from`, by -amount
\* for `to` and not at all for any other member, whatever absence records
\* exist on that date.
C21_SettlementRecorded ==
    [][lastOp'.op = "Settlement.recordSettlement" =>
          \A s \in PaymentInputs :
              (/\ validateSettlementData(s) = {}
               /\ MonthOfDay(s.date) \notin lockedMonths
               /\ RecordSettlement(s))
                  => /\ lastOp'.ok
                     /\ \E e \in StoredExpenses' \ StoredExpenses :
                            /\ StoredExpenses' = StoredExpenses \cup {e}
                            /\ e.paidBy = s.from /\ e.amount = s.amount
                     /\ \A m \in Range(storedMembers) :
                            GetBal(MonthBalances(MonthOfDay(s.date))', m)
                            - GetBal(MonthBalances(MonthOfDay(s.date)), m)
                                = IF m = s.from THEN s.amount
                                  ELSE IF m = s.to THEN -s.amount ELSE 0]_vars

----
\* Properties of absence changes on stored expenses (checked under SpecAbsent)

PresenceOps ==
    {"Presence.addAbsence", "Presence.updateAbsence", "Presence.deleteAbsence"}

\* C22: addAbsence, updateAbsence and deleteAbsence leave every stored
\* expense (participant list and share map) unchanged, so the balances, and
\* the settlements computed from them and the members, are the same before
\* and after an absence change.
C22_AbsenceChangeKeepsExpenses ==
    [][lastOp'.op \in PresenceOps =>
          /\ allExpenses' = allExpenses
          /\ storedMembers' = storedMembers
          /\ \A month \in Months \cup {MonthOfDay(0)} :
                 MonthBalances(month)' = MonthBalances(month)]_vars

\* An absence was stored that covers the date of an expense already stored
\* with the absent member among its participants
C22_Witness ==
    /\ lastOp.op \in PresenceOps
    /\ lastOp.ok
    /\ \E e \in StoredExpenses :
           /\ e.paidBy = "Alice"
           /\ "Bob" \in Range(e.splitBetween)
           /\ "Bob" \in DOMAIN e.splitDetails
           /\ "Bob" \in getAbsentMembers(e.date)

----
\* Properties of equal splits as stored (checked under SpecEqual)

\* C23: when Expense.add stores an equal-split expense, the stored share map
\* equals calculateEqualSplit(amount, surviving participants): every
\* non-absent intended participant gets amount / count rounded to 2 decimals.
C23_EqualSharesRederived ==
    [][lastOp'.op = "Expense.add" =>
          \A d \in EqualShareInputs :
              (ExpenseAdd(d) /\ lastOp'.ok)
                  => \E e \in StoredExpenses' \ StoredExpenses :
                         /\ Range(e.splitBetween) = Range(d.splitBetween) \ Away(d.date)
                         /\ e.splitDetails
                                = calculateEqualSplit(e.amount, e.splitBetween).val]_vars

----
\* Trends: calculateTrends over the expenses of each month

MaxMonths == 3                   \* most month buckets given to calculateTrends

\* Growth is kept in tenths of a percent: toFixed(1)
OnePercent == 10

\* toFixed(1) followed by parseFloat of the rational num/den (den > 0), in
\* tenths: the nearest tenth, halves away from zero
ToFixed1Q(num, den) ==
    IF num >= 0
    THEN (2 * num * OnePercent + den) \div (2 * den)
    ELSE -((2 * (-num) * OnePercent + den) \div (2 * den))

\* trends.sort by month key: the keys in ascending order
RECURSIVE Ascending(_)
Ascending(S) ==
    IF S = {} THEN <<>>
    ELSE LET least == CHOOSE x \in S : \A y \in S : x <= y
         IN <<least>> \o Ascending(S \ {least})

\* calculateTrends: the entry pushed for a month (its expenses as amounts)
trendEntry(monthKey, amounts) ==
    [month |-> monthKey,
     total |-> ToFixed2(SumSeq(amounts)),
     count |-> Len(amounts),
     average |-> IF Len(amounts) > 0 THEN ToFixed2Q(SumSeq(amounts), Len(amounts))
                 ELSE 0]

\* calculateTrends: the month-over-month growth of an entry after the first
growthOf(previousTotal, currentTotal) ==
    IF previousTotal > 0
    THEN ToFixed1Q((currentTotal - previousTotal) * 100, previousTotal)
    ELSE IF currentTotal > 0 THEN 100 * OnePercent ELSE 0

\* calculateTrends(expensesByMonth); the first entry has no growth field
calculateTrends(expensesByMonth) ==
    LET keys == Ascending(DOMAIN expensesByMonth)
        entry(k) == trendEntry(keys[k], expensesByMonth[keys[k]])
    IN [k \in DOMAIN keys |->
           IF k = 1 THEN entry(k)
           ELSE Spread(entry(k),
                       [growth |-> growthOf(entry(k - 1).total, entry(k).total)])]

\* Months without expenses, with one and with two
TrendsInputs ==
    {[fn |-> "calculateTrends", expensesByMonth |-> byMonth] :
        byMonth \in UNION {[D -> {<<>>, <<Dollar>>, <<3 * Dollar>>, <<Dollar, Dollar>>}] :
                              D \in (SUBSET (1..MaxMonths)) \ {{}}}}

CallTrends ==
    /\ call.fn = "calculateTrends"
    /\ ret = Pending
    /\ ret' = Returned(calculateTrends(call.expensesByMonth))
    /\ UNCHANGED <<call, plannerVars, storeVars>>

InitTrends ==
    /\ call \in TrendsInputs
    /\ ret = Pending
    /\ PlannerIdle
    /\ StoreUnavailable

NextTrends == CallTrends

SpecTrends == InitTrends /\ [][NextTrends]_vars

\* C24: in calculateTrends, with months sorted ascending, a month's growth is
\* (current - previous) / previous * 100 (to one decimal) when the previous
\* month's total is > 0, and is 0 whenever the previous month's total is 0,
\* whatever the current month's total.
C24_TrendGrowth ==
    (call.fn = "calculateTrends" /\ ret.ok)
        => \A k \in 2..Len(ret.val) :
               LET previous == ret.val[k - 1].total
                   current == ret.val[k].total
                   growth == ret.val[k].growth
               IN /\ ret.val[k - 1].month < ret.val[k].month
                  /\ previous > 0 =>
                         2 * Abs(growth * previous
                                 - (current - previous) * 100 * OnePercent) <= previous
                  /\ previous = 0 => growth = 0

----
\* Properties of settling up (checked under SpecSettleUp)

\* C25: if every instruction returned by getSettlements(M) is recorded with
\* recordSettlement using a date inside the unlocked month M, then a
\* following getSettlements(M) returns an empty list.
C25_SettleUpClearsMonth ==
    (/\ lastOp.op = "Settlement.processBatchSettlements"
     /\ lastOp.ok
     /\ MonthOfDay(lastOp.date) = lastOp.month
     /\ lastOp.month \notin lockedMonths)
        => getSettlements(lastOp.month).list = <<>>

----
\* Properties of the amounts a settlement plan moves (checked under SpecPlanner)

\* C26: in the list returned by calculateSettlements, for every debtor the
\* amounts of the instructions it pays sum to at most the amount it owes
\* (|balance|), and for every creditor the amounts of the instructions it
\* receives sum to at most its positive balance.
C26_NoOverSettlement ==
    pc = "done" =>
        \A m \in Range(members) :
            /\ IsDebtor(m) => PaidBy(settlements, m) <= -GetBal(givenBalances, m)
            /\ IsCreditor(m) => ReceivedBy(settlements, m) <= GetBal(givenBalances, m)

----
\* Members.getMemberContributions against calculateBalances (checked under
\* SpecExpense)

\* getMemberContributions: what the expense adds to `owed` for the member; a
\* share of 0 is falsy and falls through to the equal split
owedIn(expense, memberId) ==
    IF memberId \in DOMAIN expense.splitDetails /\ expense.splitDetails[memberId] # 0
    THEN expense.splitDetails[memberId]
    ELSE IF memberId \in Range(expense.splitBetween)
    THEN Quot(expense.amount, Len(expense.splitBetween))
    ELSE 0

\* Members.getMemberContributions(memberId) over the expenses of every month
getMemberContributions(memberId) ==
    LET ids == {e.id : e \in StoredExpenses}
        byId(id) == CHOOSE e \in StoredExpenses : e.id = id
        paid == SumMap([id \in ids |->
                           IF byId(id).paidBy = memberId THEN byId(id).amount ELSE 0])
        owed == SumMap([id \in ids |-> owedIn(byId(id), memberId)])
    IN [paid |-> ToFixed2(paid), owed |-> ToFixed2(owed), net |-> ToFixed2(paid - owed)]

\* Object.values(getExpenses()).flat(), as calculateBalances reads it
RECURSIVE FlatExpenses(_)
FlatExpenses(keys) ==
    IF keys = <<>> THEN <<>>
    ELSE getAll(Head(keys)) \o FlatExpenses(Tail(keys))

AllBalances ==
    calculateBalances(FlatExpenses(Ascending(DOMAIN allExpenses)), storedMembers)

\* C27: for every member m and every set of stored expenses,
\* getMemberContributions(m).net equals m's balance returned by
\* calculateBalances over all stored expenses, including when m paid for an
\* expense in which m is also a participant.
C27_NetPositionsAgree ==
    \A m \in Range(storedMembers) :
        getMemberContributions(m).net = GetBal(AllBalances, m)

----
\* Properties of the month buckets (checked under SpecBucket)

\* C28: after any sequence of saveExpense, updateExpense and deleteExpense
\* operations every stored expense lies in the month bucket whose key is the
\* YYYY-MM of the expense's own date, also after an update that changes the
\* date to another month.
C28_ExpenseInBucketOfItsDate ==
    \A monthKey \in DOMAIN allExpenses :
        \A k \in DOMAIN allExpenses[monthKey] :
            MonthOfDay(allExpenses[monthKey][k].date) = monthKey

----
\* Properties of importData (checked under SpecImport)

\* C29: when importData fails (unparseable input, unsupported format or
\* missing version/members/expenses), the stored members, expenses, absence
\* records and locked months are the same as just before the call, whether or
\* not a backup left by an earlier successful import is present.
C29_FailedImportChangesNothing ==
    [][(lastOp'.op = "Storage.importData" /\ ~lastOp'.ok)
          => UNCHANGED <<storedMembers, allExpenses, presenceRecords,
                         lockedMonths>>]_vars

----
\* Properties of editing an absence (checked under SpecPresence)

\* C30: updateAbsence on an existing record succeeds, keeping the record's id
\* and replacing it in place, whenever the resulting date range overlaps no
\* other record of the same member, in particular when only the reason
\* changes and the dates stay the same (ranges taken with start <= end).
C30_AbsenceEditable ==
    [][lastOp'.op = "Presence.updateAbsence" =>
          \A id \in RecordIds, u \in AbsenceUpdates :
              (/\ absenceById(id) # {}
               /\ LET d == newPresenceRecord(updatedData(id, u))
                  IN /\ d.startDate <= d.endDate
                     /\ Meets(d.memberId, d.startDate, d.endDate, id) = {}
               /\ UpdateAbsence(id, u))
                  => /\ lastOp'.ok
                     /\ Len(presenceRecords') = Len(presenceRecords)
                     /\ \A k \in DOMAIN presenceRecords :
                            presenceRecords'[k] =
                                IF presenceRecords[k].id = id
                                THEN newPresenceRecord(updatedData(id, u))
                                ELSE presenceRecords[k]]_vars

====
